---------------------------- MODULE Spec2Model ----------------------------
(* A model of solve.py: the Card with its colour lookup and its edge     *)
(* list, the GamePanel with its cursor (can_place / place / remove_last)  *)
(* and the recursive generator solve_problem, driven to exhaustion by the *)
(* __main__ loop.                                                         *)
EXTENDS Integers, Sequences, FiniteSets, TLC

(* ------------------------------ bounds -------------------------------- *)
\* Short pools are all sequences of distinct card ids 1..MaxId of length
\* at most MaxPool; the 9-card catalog pool is always explored as well.
\* The history of entered calls and the brute-force reference are kept for
\* the short pools only.
MaxId == 4
MaxPool == 2
\* The panel API is exercised with the cards 1..MaxGridCard.
MaxGridCard == 2
\* Writes to an edge list in one run of Card calls.
MaxWrites == 1

(* --------------------------- Card.Color ------------------------------- *)
UNKNOWN == -1
BLUE == 0
GREEN == 1
RED == 2
YELLOW == 3

\* Card.Orientation: FN, FE, FS, FW, BN, BE, BS, BW = 0..7
Orientation == 0 .. 7

\* generate_cards: card_edges; the card with id i gets card_edges[i]
\* (index i-1 in the source's list).
card_edges ==
  << << <<GREEN, BLUE>>, <<RED, GREEN>>, <<BLUE, YELLOW>>, <<RED, YELLOW>>,
        <<YELLOW, BLUE>>, <<RED, YELLOW>>, <<BLUE, GREEN>>, <<RED, GREEN>> >>,
     << <<GREEN, YELLOW>>, <<BLUE, RED>>, <<GREEN, BLUE>>, <<RED, YELLOW>>,
        <<YELLOW, GREEN>>, <<RED, BLUE>>, <<YELLOW, BLUE>>, <<GREEN, RED>> >>,
     << <<GREEN, RED>>, <<YELLOW, BLUE>>, <<GREEN, YELLOW>>, <<BLUE, RED>>,
        <<YELLOW, RED>>, <<BLUE, GREEN>>, <<YELLOW, GREEN>>, <<RED, BLUE>> >>,
     << <<BLUE, YELLOW>>, <<RED, GREEN>>, <<BLUE, GREEN>>, <<YELLOW, RED>>,
        <<GREEN, BLUE>>, <<YELLOW, RED>>, <<GREEN, YELLOW>>, <<RED, BLUE>> >>,
     << <<YELLOW, RED>>, <<GREEN, BLUE>>, <<YELLOW, BLUE>>, <<RED, GREEN>>,
        <<BLUE, RED>>, <<YELLOW, GREEN>>, <<BLUE, YELLOW>>, <<GREEN, RED>> >>,
     << <<BLUE, RED>>, <<GREEN, YELLOW>>, <<BLUE, YELLOW>>, <<RED, GREEN>>,
        <<RED, BLUE>>, <<YELLOW, GREEN>>, <<RED, YELLOW>>, <<GREEN, BLUE>> >>,
     << <<YELLOW, GREEN>>, <<BLUE, RED>>, <<YELLOW, RED>>, <<GREEN, BLUE>>,
        <<GREEN, YELLOW>>, <<RED, BLUE>>, <<GREEN, RED>>, <<BLUE, YELLOW>> >>,
     << <<RED, YELLOW>>, <<BLUE, YELLOW>>, <<GREEN, RED>>, <<BLUE, GREEN>>,
        <<RED, GREEN>>, <<YELLOW, GREEN>>, <<BLUE, RED>>, <<YELLOW, BLUE>> >>,
     << <<GREEN, RED>>, <<YELLOW, RED>>, <<BLUE, GREEN>>, <<YELLOW, BLUE>>,
        <<GREEN, YELLOW>>, <<RED, YELLOW>>, <<BLUE, GREEN>>, <<RED, BLUE>> >> >>

\* generate_cards returns the ids 1..9 in this order.
generate_cards == [i \in 1 .. Len(card_edges) |-> i]

\* A second set of 9 cards, ids 10..18, for calling solve_problem with a
\* pool that is not the catalog.  Their edges match in many orientations:
\* the cards 10, 12, 16 and 18 show one colour all around on both sides,
\* card 14 has the same edges on both sides, and <<RED, YELLOW>> matches no
\* edge of the set.
symmetric_edges ==
  << << <<BLUE, BLUE>>, <<BLUE, BLUE>>, <<BLUE, BLUE>>, <<BLUE, BLUE>>,
        <<BLUE, BLUE>>, <<BLUE, BLUE>>, <<BLUE, BLUE>>, <<BLUE, BLUE>> >>,
     << <<RED, YELLOW>>, <<GREEN, GREEN>>, <<BLUE, RED>>, <<BLUE, BLUE>>,
        <<RED, YELLOW>>, <<RED, YELLOW>>, <<RED, YELLOW>>, <<RED, YELLOW>> >>,
     << <<GREEN, GREEN>>, <<GREEN, GREEN>>, <<GREEN, GREEN>>, <<GREEN, GREEN>>,
        <<GREEN, GREEN>>, <<GREEN, GREEN>>, <<GREEN, GREEN>>, <<GREEN, GREEN>> >>,
     << <<BLUE, BLUE>>, <<BLUE, YELLOW>>, <<YELLOW, YELLOW>>, <<RED, YELLOW>>,
        <<RED, YELLOW>>, <<RED, YELLOW>>, <<RED, YELLOW>>, <<RED, YELLOW>> >>,
     << <<RED, BLUE>>, <<GREEN, RED>>, <<GREEN, YELLOW>>, <<YELLOW, BLUE>>,
        <<RED, BLUE>>, <<GREEN, RED>>, <<GREEN, YELLOW>>, <<YELLOW, BLUE>> >>,
     << <<GREEN, GREEN>>, <<RED, YELLOW>>, <<RED, RED>>, <<RED, GREEN>>,
        <<RED, YELLOW>>, <<RED, YELLOW>>, <<RED, YELLOW>>, <<RED, YELLOW>> >>,
     << <<YELLOW, YELLOW>>, <<YELLOW, YELLOW>>, <<YELLOW, YELLOW>>,
        <<YELLOW, YELLOW>>, <<YELLOW, YELLOW>>, <<YELLOW, YELLOW>>,
        <<YELLOW, YELLOW>>, <<YELLOW, YELLOW>> >>,
     << <<YELLOW, GREEN>>, <<RED, RED>>, <<RED, YELLOW>>, <<YELLOW, YELLOW>>,
        <<RED, YELLOW>>, <<RED, YELLOW>>, <<RED, YELLOW>>, <<RED, YELLOW>> >>,
     << <<RED, RED>>, <<RED, RED>>, <<RED, RED>>, <<RED, RED>>,
        <<RED, RED>>, <<RED, RED>>, <<RED, RED>>, <<RED, RED>> >> >>

\* The pool of these cards, built like generate_cards builds the catalog.
symmetric_cards ==
  [i \in 1 .. Len(symmetric_edges) |-> Len(card_edges) + i]

\* card.edges of the card with this id
EdgesOf(card_id) ==
  IF card_id <= Len(card_edges)
    THEN card_edges[card_id]
    ELSE symmetric_edges[card_id - Len(card_edges)]

(* ------------------------------- Card --------------------------------- *)
\* An empty slot (Python None).  A card is [card_id, orientation]; its
\* edges are EdgesOf(card_id), shared by every copy solve_problem makes.
None == [card_id |-> 0, orientation |-> 0]

\* Mutant: the orientation argument is dropped, every card is built FN.
Card_default_orientation(card_id, orientation) ==
  [card_id |-> card_id, orientation |-> 0]

Card(card_id, orientation) == [card_id |-> card_id, orientation |-> orientation]

\* Mutant: the back side is never looked at.
getitem_front_only(edges, orientation, item_idx) ==
  LET idx == (item_idx - 2 * (orientation % 4)) % 8
  IN  edges[(idx \div 2) + 1][(idx % 2) + 1]

\* Mutant: the rotation is applied the other way round.
getitem_rotate_back(edges, orientation, item_idx) ==
  LET idx == (item_idx + 2 * (orientation % 4)) % 8
  IN  IF orientation < 4
        THEN edges[(idx \div 2) + 1][(idx % 2) + 1]
        ELSE edges[(idx \div 2) + 4 + 1][(idx % 2) + 1]

\* Card.__getitem__ on an explicit edge table (edges is 1-indexed here).
getitem(edges, orientation, item_idx) ==
  LET idx == (item_idx - 2 * (orientation % 4)) % 8
  IN  IF orientation < 4
        THEN edges[(idx \div 2) + 1][(idx % 2) + 1]
        ELSE edges[(idx \div 2) + 4 + 1][(idx % 2) + 1]

\* card[item_idx]
Card_getitem(card, item_idx) ==
  getitem(EdgesOf(card.card_id), card.orientation, item_idx)

\* Card.__ne__ (other may be None)
Card_ne(self, other) == (other = None) \/ self.card_id # other.card_id

(* ----------------------------- GamePanel ------------------------------ *)
\* SLOT_NEIGHBORS; NoIdx stands for None in the table.
NoIdx == -1
SLOT_NEIGHBORS ==
  [s \in 0 .. 8 |->
     CASE s = 0 -> [north |-> NoIdx, east |-> 1, south |-> 3, west |-> NoIdx]
       [] s = 1 -> [north |-> NoIdx, east |-> 2, south |-> 4, west |-> 0]
       [] s = 2 -> [north |-> NoIdx, east |-> NoIdx, south |-> 5, west |-> 1]
       [] s = 3 -> [north |-> 0, east |-> 4, south |-> 6, west |-> NoIdx]
       [] s = 4 -> [north |-> 1, east |-> 5, south |-> 7, west |-> 3]
       [] s = 5 -> [north |-> 2, east |-> NoIdx, south |-> 8, west |-> 4]
       [] s = 6 -> [north |-> 3, east |-> 7, south |-> NoIdx, west |-> NoIdx]
       [] s = 7 -> [north |-> 4, east |-> 8, south |-> NoIdx, west |-> 6]
       [] s = 8 -> [north |-> 5, east |-> NoIdx, south |-> NoIdx, west |-> 7]]

\* GamePanel.__init__
EmptySlots == [s \in 0 .. 8 |-> None]
NewPanel == [slots |-> EmptySlots, curr_slot |-> 0]

\* The neighbour card read in can_place: self.slots[idx] if idx is not None.
neighbor_card(p, idx) == IF idx # NoIdx THEN p.slots[idx] ELSE None

\* Mutant: the western neighbour is not checked.
can_place_no_west(p, card) ==
  LET nb == SLOT_NEIGHBORS[p.curr_slot]
      n == neighbor_card(p, nb.north)
  IN  ~(n # None /\ (Card_getitem(card, 0) # Card_getitem(n, 5)
                     \/ Card_getitem(card, 1) # Card_getitem(n, 4)))

\* Mutant: the eastern neighbour is compared 2 with 6 and 3 with 7.
can_place_east_swapped(p, card) ==
  LET nb == SLOT_NEIGHBORS[p.curr_slot]
      n == neighbor_card(p, nb.north)
      e == neighbor_card(p, nb.east)
      s == neighbor_card(p, nb.south)
      w == neighbor_card(p, nb.west)
  IN  /\ ~(n # None /\ (Card_getitem(card, 0) # Card_getitem(n, 5)
                        \/ Card_getitem(card, 1) # Card_getitem(n, 4)))
      /\ ~(e # None /\ (Card_getitem(card, 2) # Card_getitem(e, 6)
                        \/ Card_getitem(card, 3) # Card_getitem(e, 7)))
      /\ ~(s # None /\ (Card_getitem(card, 5) # Card_getitem(s, 0)
                        \/ Card_getitem(card, 4) # Card_getitem(s, 1)))
      /\ ~(w # None /\ (Card_getitem(card, 7) # Card_getitem(w, 2)
                        \/ Card_getitem(card, 6) # Card_getitem(w, 3)))

\* GamePanel.can_place, for curr_slot in 0..8 (the caller handles the
\* IndexError of SLOT_NEIGHBORS[9]).
can_place(p, card) ==
  LET nb == SLOT_NEIGHBORS[p.curr_slot]
      n == neighbor_card(p, nb.north)
      e == neighbor_card(p, nb.east)
      s == neighbor_card(p, nb.south)
      w == neighbor_card(p, nb.west)
  IN  IF n # None /\ (Card_getitem(card, 0) # Card_getitem(n, 5)
                      \/ Card_getitem(card, 1) # Card_getitem(n, 4))
        THEN FALSE
      ELSE IF e # None /\ (Card_getitem(card, 2) # Card_getitem(e, 7)
                           \/ Card_getitem(card, 3) # Card_getitem(e, 6))
        THEN FALSE
      ELSE IF s # None /\ (Card_getitem(card, 5) # Card_getitem(s, 0)
                           \/ Card_getitem(card, 4) # Card_getitem(s, 1))
        THEN FALSE
      ELSE IF w # None /\ (Card_getitem(card, 7) # Card_getitem(w, 2)
                           \/ Card_getitem(card, 6) # Card_getitem(w, 3))
        THEN FALSE
      ELSE TRUE

\* Mutant: the cursor is advanced by two.
place_advance_two(p, card) ==
  IF p.curr_slot \in 0 .. 8
    THEN [slots |-> [p.slots EXCEPT ![p.curr_slot] = card],
          curr_slot |-> p.curr_slot + 2, exc |-> "none"]
    ELSE [slots |-> p.slots, curr_slot |-> p.curr_slot, exc |-> "IndexError"]

\* Mutant: the cursor is not advanced.
place_no_advance(p, card) ==
  IF p.curr_slot \in 0 .. 8
    THEN [slots |-> [p.slots EXCEPT ![p.curr_slot] = card],
          curr_slot |-> p.curr_slot, exc |-> "none"]
    ELSE [slots |-> p.slots, curr_slot |-> p.curr_slot, exc |-> "IndexError"]

\* GamePanel.place: the slot write raises IndexError at curr_slot = 9,
\* before the cursor is advanced.
place(p, card) ==
  IF p.curr_slot \in 0 .. 8
    THEN [slots |-> [p.slots EXCEPT ![p.curr_slot] = card],
          curr_slot |-> p.curr_slot + 1, exc |-> "none"]
    ELSE [slots |-> p.slots, curr_slot |-> p.curr_slot, exc |-> "IndexError"]

\* Mutant: the slot is not cleared.
remove_last_no_clear(p) ==
  IF ~(p.curr_slot > 0)
    THEN [slots |-> p.slots, curr_slot |-> p.curr_slot,
          exc |-> "AssertionError"]
  ELSE IF ~(p.slots[p.curr_slot - 1] # None)
    THEN [slots |-> p.slots, curr_slot |-> p.curr_slot - 1,
          exc |-> "AssertionError"]
  ELSE [slots |-> p.slots, curr_slot |-> p.curr_slot - 1, exc |-> "none"]

\* Mutant: the slot is cleared but the cursor stays.
remove_last_keeps_cursor(p) ==
  IF ~(p.curr_slot > 0)
    THEN [slots |-> p.slots, curr_slot |-> p.curr_slot,
          exc |-> "AssertionError"]
  ELSE IF ~(p.slots[p.curr_slot - 1] # None)
    THEN [slots |-> p.slots, curr_slot |-> p.curr_slot,
          exc |-> "AssertionError"]
  ELSE [slots |-> [p.slots EXCEPT ![p.curr_slot - 1] = None],
        curr_slot |-> p.curr_slot, exc |-> "none"]

\* Mutant: the cursor is decremented before the first assert, too.
remove_last_decrement_first(p) ==
  IF ~(p.curr_slot > 0)
    THEN [slots |-> p.slots, curr_slot |-> p.curr_slot - 1,
          exc |-> "AssertionError"]
  ELSE IF ~(p.slots[p.curr_slot - 1] # None)
    THEN [slots |-> p.slots, curr_slot |-> p.curr_slot - 1,
          exc |-> "AssertionError"]
  ELSE [slots |-> [p.slots EXCEPT ![p.curr_slot - 1] = None],
        curr_slot |-> p.curr_slot - 1, exc |-> "none"]

\* Mutant: the second assert is missing.
remove_last_no_assert(p) ==
  IF ~(p.curr_slot > 0)
    THEN [slots |-> p.slots, curr_slot |-> p.curr_slot,
          exc |-> "AssertionError"]
  ELSE [slots |-> [p.slots EXCEPT ![p.curr_slot - 1] = None],
        curr_slot |-> p.curr_slot - 1, exc |-> "none"]

\* GamePanel.remove_last: the first assert fails before anything changes,
\* the second one after the cursor was decremented.
remove_last(p) ==
  IF ~(p.curr_slot > 0)
    THEN [slots |-> p.slots, curr_slot |-> p.curr_slot,
          exc |-> "AssertionError"]
  ELSE IF ~(p.slots[p.curr_slot - 1] # None)
    THEN [slots |-> p.slots, curr_slot |-> p.curr_slot - 1,
          exc |-> "AssertionError"]
  ELSE [slots |-> [p.slots EXCEPT ![p.curr_slot - 1] = None],
        curr_slot |-> p.curr_slot - 1, exc |-> "none"]

(* ------------------------------ state --------------------------------- *)
VARIABLES
  slots,        \* GamePanel.slots: 0..8 -> card or None
  curr_slot,    \* GamePanel.curr_slot
  stack,        \* active solve_problem generators, outermost first
  COMBOS,       \* global COMBOS
  n_solutions,  \* __main__: n_solutions
  mode,         \* "run", "done", "error" (solver), "api" (panel calls)
                \* or "card" (Card calls)
  exc,          \* the exception that ended the run, or "none"
  emitted,      \* history: the slots of each yielded panel, in order
                \* (kept for pools of catalog cards)
  entered,      \* history: (slots, avail_cards) at each call of a short pool
  revisited,    \* history: a call was entered with a pair already in entered
  last,         \* history: the last panel call, its outcome, the panel before
  heap          \* Card objects and the edge lists they refer to (Card calls)

vars == << slots, curr_slot, stack, COMBOS, n_solutions, mode, exc,
           emitted, entered, revisited, last, heap >>

panel == [slots |-> slots, curr_slot |-> curr_slot]

NoCall == [op |-> "none", card |-> None, exc |-> "none", ret |-> FALSE,
           before |-> NewPanel]

\* The solver and the panel calls use the catalog's edge lists, which they
\* never write: no Card object needs to be kept for them.
NoHeap == [lists |-> << >>, cards |-> << >>, writes |-> 0]

(* ------------------------------ pools --------------------------------- *)
\* Sequences of distinct ids 1..MaxId, of length 0..MaxPool.
ShortPools ==
  UNION { { q \in [1 .. n -> 1 .. MaxId] :
              \A i, j \in 1 .. n : i # j => q[i] # q[j] } : n \in 0 .. MaxPool }

Pools == ShortPools \cup {generate_cards}

(* --------------------------- solve_problem ---------------------------- *)
\* A generator frame of solve_problem(panel, avail_cards): the position of
\* its two for loops (ci is the 1-based index into avail_cards) and where
\* it stands: "base" (about to yield the panel), "yielded" (suspended at
\* the base-case yield), "loop" (in or between iterations).
Frame(avail_cards) ==
  [avail_cards |-> avail_cards, ci |-> 1, orientation |-> 0,
   pc |-> IF avail_cards = << >> THEN "base" ELSE "loop"]

\* Mutant: the orientation loop stops one short (BW is never tried).
NextIteration_skip_last(f) ==
  IF f.orientation < 6
    THEN [f EXCEPT !.orientation = @ + 1]
    ELSE [f EXCEPT !.ci = @ + 1, !.orientation = 0]

\* Mutant: the orientations are tried in the order FN, BW, BS, ..., FE.
NextIteration_descending(f) ==
  IF f.orientation = 0
    THEN [f EXCEPT !.orientation = 7]
  ELSE IF f.orientation > 1
    THEN [f EXCEPT !.orientation = @ - 1]
  ELSE [f EXCEPT !.ci = @ + 1, !.orientation = 0]

\* Next iteration of "for orientation in Card.Orientation" inside
\* "for card in avail_cards".
NextIteration(f) ==
  IF f.orientation < 7
    THEN [f EXCEPT !.orientation = @ + 1]
    ELSE [f EXCEPT !.ci = @ + 1, !.orientation = 0]

\* Mutant: the first card of the pool is dropped, not the placed one.
new_cards_avail_drop_first(avail_cards, new_card) ==
  SubSeq(avail_cards, 2, Len(avail_cards))

\* Mutant: the last card of the pool is dropped, not the placed one.
new_cards_avail_drop_last(avail_cards, new_card) ==
  SubSeq(avail_cards, 1, Len(avail_cards) - 1)

\* Mutant: nothing is dropped from the pool.
new_cards_avail_keep_all(avail_cards, new_card) == avail_cards

\* [x for x in avail_cards if x != new_card]
new_cards_avail(avail_cards, new_card) ==
  SelectSeq(avail_cards, LAMBDA x : Card_ne(Card(x, 0), new_card))

top == stack[Len(stack)]
pool0 == stack[1].avail_cards
Tracked == Len(pool0) <= MaxPool

InLoop == /\ mode = "run"
          /\ top.pc = "loop"
          /\ top.ci <= Len(top.avail_cards)

new_card == Card(top.avail_cards[top.ci], top.orientation)

\* The history of emitted panels is kept for pools of catalog cards.
Observed == \A i \in DOMAIN pool0 : pool0[i] <= Len(card_edges)

\* The driver's state before its loop, for a pool of the given set.
InitWith(pools) ==
  /\ slots = EmptySlots
  /\ curr_slot = 0
  /\ \E pool \in pools :
       /\ stack = << Frame(pool) >>
       /\ entered = IF Len(pool) <= MaxPool
                      THEN { << EmptySlots, pool >> } ELSE {}
  /\ COMBOS = 0
  /\ n_solutions = 0
  /\ mode = "run"
  /\ exc = "none"
  /\ emitted = << >>
  /\ revisited = FALSE
  /\ last = NoCall
  /\ heap = NoHeap

Init == InitWith(Pools)

\* Mutant: a rejected attempt is not counted.
AttemptReject_uncounted ==
  /\ InLoop
  /\ IF curr_slot \notin 0 .. 8
       THEN /\ mode' = "error"
            /\ exc' = "IndexError"
            /\ COMBOS' = COMBOS + 1
            /\ UNCHANGED stack
       ELSE /\ ~can_place(panel, new_card)
            /\ stack' = [stack EXCEPT ![Len(stack)] = NextIteration(@)]
            /\ UNCHANGED << mode, exc, COMBOS >>
  /\ UNCHANGED << slots, curr_slot, n_solutions, emitted, entered,
                  revisited, last, heap >>

\* Mutant: the candidate is written into the slot before it is tested and
\* stays there when the test fails.
AttemptReject_keeps_card ==
  /\ InLoop
  /\ COMBOS' = COMBOS + 1
  /\ IF curr_slot \notin 0 .. 8
       THEN /\ mode' = "error"
            /\ exc' = "IndexError"
            /\ UNCHANGED << stack, slots >>
       ELSE /\ ~can_place(panel, new_card)
            /\ slots' = [slots EXCEPT ![curr_slot] = new_card]
            /\ stack' = [stack EXCEPT ![Len(stack)] = NextIteration(@)]
            /\ UNCHANGED << mode, exc >>
  /\ UNCHANGED << curr_slot, n_solutions, emitted, entered,
                  revisited, last, heap >>

\* One (card, orientation) attempt that can_place rejects ("continue");
\* can_place itself raises IndexError when the cursor is outside 0..8.
AttemptReject ==
  /\ InLoop
  /\ COMBOS' = COMBOS + 1
  /\ IF curr_slot \notin 0 .. 8
       THEN /\ mode' = "error"
            /\ exc' = "IndexError"
            /\ UNCHANGED stack
       ELSE /\ ~can_place(panel, new_card)
            /\ stack' = [stack EXCEPT ![Len(stack)] = NextIteration(@)]
            /\ UNCHANGED << mode, exc >>
  /\ UNCHANGED << slots, curr_slot, n_solutions, emitted, entered,
                  revisited, last, heap >>

\* One attempt that can_place accepts: count it, place the card and call
\* solve_problem(panel, new_cards_avail).
AttemptAccept ==
  /\ InLoop
  /\ curr_slot \in 0 .. 8
  /\ can_place(panel, new_card)
  /\ COMBOS' = COMBOS + 1
  /\ LET r == place(panel, new_card)
         avail == new_cards_avail(top.avail_cards, new_card)
     IN  /\ slots' = r.slots
         /\ curr_slot' = r.curr_slot
         /\ stack' = Append(stack, Frame(avail))
         /\ IF Tracked
              THEN /\ revisited' = (revisited \/ << r.slots, avail >> \in entered)
                   /\ entered' = entered \cup { << r.slots, avail >> }
              ELSE UNCHANGED << entered, revisited >>
  /\ UNCHANGED << n_solutions, mode, exc, emitted, last, heap >>

\* Base case: "yield panel" travels up through every caller's
\* "yield solved_panel" to the driver, which counts it.
Yield ==
  /\ mode = "run"
  /\ top.pc = "base"
  /\ emitted' = IF Observed THEN Append(emitted, slots) ELSE emitted
  /\ n_solutions' = n_solutions + 1
  /\ stack' = [stack EXCEPT ![Len(stack)].pc = "yielded"]
  /\ UNCHANGED << slots, curr_slot, COMBOS, mode, exc, entered, revisited,
                  last, heap >>

Exhausted(f) == \/ f.pc = "yielded"
                \/ f.pc = "loop" /\ f.ci > Len(f.avail_cards)

\* Mutant: the caller goes to its next iteration without remove_last().
Return_no_undo ==
  /\ mode = "run"
  /\ Len(stack) > 1
  /\ Exhausted(top)
  /\ stack' = [SubSeq(stack, 1, Len(stack) - 1)
                 EXCEPT ![Len(stack) - 1] = NextIteration(@)]
  /\ UNCHANGED << slots, curr_slot, mode, exc, COMBOS, n_solutions, emitted,
                  entered, revisited, last, heap >>

\* The innermost generator is exhausted: its caller's inner for loop ends,
\* the caller calls panel.remove_last() and goes to its next iteration.
Return ==
  /\ mode = "run"
  /\ Len(stack) > 1
  /\ Exhausted(top)
  /\ LET r == remove_last(panel)
     IN  /\ slots' = r.slots
         /\ curr_slot' = r.curr_slot
         /\ IF r.exc # "none"
              THEN /\ mode' = "error"
                   /\ exc' = r.exc
                   /\ stack' = SubSeq(stack, 1, Len(stack) - 1)
              ELSE /\ stack' = [SubSeq(stack, 1, Len(stack) - 1)
                                  EXCEPT ![Len(stack) - 1] = NextIteration(@)]
                   /\ UNCHANGED << mode, exc >>
  /\ UNCHANGED << COMBOS, n_solutions, emitted, entered, revisited, last,
                  heap >>

\* The outermost generator is exhausted: the driver's loop ends and it
\* prints the totals.
Finish ==
  /\ mode = "run"
  /\ Len(stack) = 1
  /\ Exhausted(top)
  /\ mode' = "done"
  /\ UNCHANGED << slots, curr_slot, stack, COMBOS, n_solutions, exc,
                  emitted, entered, revisited, last, heap >>

Next == \/ AttemptReject
        \/ AttemptAccept
        \/ Yield
        \/ Return
        \/ Finish

Spec == Init /\ [][Next]_vars

\* The driver's for loop keeps resuming the generator until it is exhausted.
FairSpec == Spec /\ WF_vars(Next)

TypeOK ==
  /\ curr_slot \in 0 .. 9
  /\ mode \in {"run", "done", "error", "api", "card"}
  /\ COMBOS \in Nat
  /\ Observed => n_solutions = Len(emitted)

(* ------------------------- calls on a GamePanel ----------------------- *)
\* The cards a caller puts on the panel: card id i in orientation 3i mod 8.
GridCards == { Card(id, (3 * id) % 8) : id \in 1 .. MaxGridCard }

\* Every card of the catalog in every orientation.
AllCards == { Card(id, o) : id \in 1 .. Len(card_edges), o \in Orientation }

GridInit ==
  /\ slots = EmptySlots
  /\ curr_slot = 0
  /\ stack = << >>
  /\ COMBOS = 0
  /\ n_solutions = 0
  /\ mode = "api"
  /\ exc = "none"
  /\ emitted = << >>
  /\ entered = {}
  /\ revisited = FALSE
  /\ last = NoCall
  /\ heap = NoHeap

SolverUnchanged ==
  UNCHANGED << stack, COMBOS, n_solutions, mode, exc, emitted, entered,
               revisited, heap >>

\* panel.place(card), card being a card or None
PlaceWith(card) ==
  /\ mode = "api"
  /\ LET r == place(panel, card)
     IN  /\ slots' = r.slots
         /\ curr_slot' = r.curr_slot
         /\ last' = [op |-> "place", card |-> card, exc |-> r.exc,
                     ret |-> FALSE, before |-> panel]
  /\ SolverUnchanged

PlaceCall == \E card \in GridCards : PlaceWith(card)

\* panel.place(None): nothing in place stops a caller from doing this.
PlaceNoneCall == PlaceWith(None)

\* panel.remove_last()
RemoveLastCall ==
  /\ mode = "api"
  /\ LET r == remove_last(panel)
     IN  /\ slots' = r.slots
         /\ curr_slot' = r.curr_slot
         /\ last' = [op |-> "remove_last", card |-> None, exc |-> r.exc,
                     ret |-> FALSE, before |-> panel]
  /\ SolverUnchanged

\* panel.can_place(card) for the card drawn with the panel (last.card);
\* SLOT_NEIGHBORS[9] raises IndexError.
CanPlaceCall ==
  /\ mode = "api"
  /\ last' = [op |-> "can_place", card |-> last.card,
              exc |-> IF curr_slot \in 0 .. 8 THEN "none" ELSE "IndexError",
              ret |-> IF curr_slot \in 0 .. 8
                        THEN can_place(panel, last.card) ELSE FALSE,
              before |-> panel]
  /\ UNCHANGED << slots, curr_slot >>
  /\ SolverUnchanged

\* A caller that places cards and removes them again.
GridNext == PlaceCall \/ RemoveLastCall

SpecGrid == GridInit /\ [][GridNext]_vars

\* A caller that also places None.
MisuseNext == PlaceCall \/ PlaceNoneCall \/ RemoveLastCall

SpecMisuse == GridInit /\ [][MisuseNext]_vars

\* can_place as a function of the panel and the card: the cursor anywhere
\* in 0..8, any of its neighbour slots occupied (slots and curr_slot are
\* plain attributes; place/remove_last alone never leave a card east or
\* south of the cursor), and any catalog card in any orientation as the
\* argument.
NeighborSlots(c) ==
  { SLOT_NEIGHBORS[c].north, SLOT_NEIGHBORS[c].east,
    SLOT_NEIGHBORS[c].south, SLOT_NEIGHBORS[c].west } \ { NoIdx }

NeighborCards ==
  { Card(id, o) : id \in 1 .. MaxGridCard, o \in {1, 6} } \cup { None }

CanPlaceInit ==
  /\ \E c \in 0 .. 8 :
       \E f \in [NeighborSlots(c) -> NeighborCards] :
         /\ curr_slot = c
         /\ slots = [s \in 0 .. 8 |-> IF s \in DOMAIN f THEN f[s] ELSE None]
  /\ stack = << >>
  /\ COMBOS = 0
  /\ n_solutions = 0
  /\ mode = "api"
  /\ exc = "none"
  /\ emitted = << >>
  /\ entered = {}
  /\ revisited = FALSE
  /\ \E card \in AllCards : last = [NoCall EXCEPT !.card = card]
  /\ heap = NoHeap

SpecCanPlace == CanPlaceInit /\ [][CanPlaceCall]_vars

\* The solver's runs on the pools of catalog cards and on the pool of the
\* second card set.
CountInit == InitWith(Pools \cup {symmetric_cards})

SpecCount == CountInit /\ [][Next]_vars

\* The solver's runs together with the single can_place calls.
AttemptInit == Init \/ CanPlaceInit

AttemptNext == Next \/ CanPlaceCall

SpecAttempt == AttemptInit /\ [][AttemptNext]_vars

(* --------------------------- calls on a Card -------------------------- *)
\* An edge list whose 16 entries are all different: a lookup's result
\* tells which entry it read.
IndexTable == [i \in 1 .. 8 |-> << 2 * (i - 1), 2 * (i - 1) + 1 >>]

\* The edge lists a caller builds cards from.
EdgeTables == { card_edges[i] : i \in 1 .. MaxGridCard } \cup { IndexTable }

\* The pair a caller writes into an edge list.
WritePairs == { << RED, RED >> }

\* Card.__init__: the card keeps a reference (ref, an index into
\* heap.lists) to the list it was given, not a copy.
NewCard(card_id, ref, orientation) ==
  [card_id |-> card_id, edges |-> ref, orientation |-> orientation]

\* card[item_idx] for the k-th card of the heap h
Card_lookup(h, k, item_idx) ==
  getitem(h.lists[h.cards[k].edges], h.cards[k].orientation, item_idx)

\* card[item_idx] = item: Card.__setitem__ raises, nothing is written.
Card_setitem(h, k, item_idx, item) == [heap |-> h, exc |-> "TypeError"]

\* edges[i] = pair on a list object (card.edges[i] = pair, or the same
\* statement by whoever built the list): edges is a plain Python list.
list_setitem(h, ref, i, pair) ==
  [heap |-> [h EXCEPT !.lists[ref][i + 1] = pair, !.writes = @ + 1],
   exc |-> "none"]

\* card.edges = <list object ref>: edges is a plain attribute.
edges_assign(h, k, ref) ==
  [heap |-> [h EXCEPT !.cards[k].edges = ref], exc |-> "none"]

\* cards[1] is built as generate_cards builds it (default orientation FN),
\* cards[2] as solve_problem re-builds it: same id, same edge list, another
\* orientation.  lists[2] is the edge list of another card.
CardInit ==
  /\ slots = EmptySlots
  /\ curr_slot = 0
  /\ stack = << >>
  /\ COMBOS = 0
  /\ n_solutions = 0
  /\ mode = "card"
  /\ exc = "none"
  /\ emitted = << >>
  /\ entered = {}
  /\ revisited = FALSE
  /\ last = NoCall
  /\ \E t \in EdgeTables, o \in Orientation :
       heap = [lists |-> << t, card_edges[Len(card_edges)] >>,
               cards |-> << NewCard(1, 1, 0), NewCard(1, 1, o) >>,
               writes |-> 0]

CardUnchanged ==
  UNCHANGED << slots, curr_slot, stack, COMBOS, n_solutions, mode, exc,
               emitted, entered, revisited >>

CardRefs == 1 .. 2
ListRefs == 1 .. 2
\* The list both cards were built from.
BuiltFrom == 1

GetItemCall ==
  /\ mode = "card"
  /\ \E k \in CardRefs, p \in 0 .. 7 :
       last' = [op |-> "getitem", card |-> k, exc |-> "none",
                ret |-> Card_lookup(heap, k, p), before |-> heap,
                item_idx |-> p]
  /\ UNCHANGED heap
  /\ CardUnchanged

SetItemCall ==
  /\ mode = "card"
  /\ \E k \in CardRefs, p \in 0 .. 7, item \in {RED} :
       LET r == Card_setitem(heap, k, p, item)
       IN  /\ heap' = r.heap
           /\ last' = [op |-> "setitem", card |-> k, exc |-> r.exc,
                       ret |-> FALSE, before |-> heap, item_idx |-> 0]
  /\ CardUnchanged

ListSetItemCall ==
  /\ mode = "card"
  /\ heap.writes < MaxWrites
  /\ \E ref \in {BuiltFrom}, i \in 0 .. 7, pair \in WritePairs :
       LET r == list_setitem(heap, ref, i, pair)
       IN  /\ heap' = r.heap
           /\ last' = [op |-> "list_setitem", card |-> ref, exc |-> r.exc,
                       ret |-> FALSE, before |-> heap, item_idx |-> i]
  /\ CardUnchanged

EdgesAssignCall ==
  /\ mode = "card"
  /\ \E k \in CardRefs, ref \in ListRefs :
       LET r == edges_assign(heap, k, ref)
       IN  /\ heap' = r.heap
           /\ last' = [op |-> "edges_assign", card |-> k, exc |-> r.exc,
                       ret |-> FALSE, before |-> heap, item_idx |-> 0]
  /\ CardUnchanged

CardNext == \/ GetItemCall
            \/ SetItemCall
            \/ ListSetItemCall
            \/ EdgesAssignCall

SpecCard == CardInit /\ [][CardNext]_vars

(* ------------------------ reference definitions ----------------------- *)
Range(f) == { f[i] : i \in DOMAIN f }

\* Colour at position p of the card in slot s of the slot array sl.
ColorAt(sl, s, p) == Card_getitem(sl[s], p)

\* The matching rule of the puzzle on a slot array: every north/south and
\* every west/east pair of occupied adjacent slots shows the same colours.
AllAdjacentMatch(sl) ==
  \A s \in 0 .. 8 :
    /\ LET t == SLOT_NEIGHBORS[s].south
       IN  (t # NoIdx /\ sl[s] # None /\ sl[t] # None)
             => /\ ColorAt(sl, s, 5) = ColorAt(sl, t, 0)
                /\ ColorAt(sl, s, 4) = ColorAt(sl, t, 1)
    /\ LET t == SLOT_NEIGHBORS[s].east
       IN  (t # NoIdx /\ sl[s] # None /\ sl[t] # None)
             => /\ ColorAt(sl, s, 2) = ColorAt(sl, t, 7)
                /\ ColorAt(sl, s, 3) = ColorAt(sl, t, 6)

\* Brute force: every way to put the cards of the pool, each once, in any
\* orientation, on the slots 0..Len(pool)-1, filtered by the matching rule.
BruteForce(pool) ==
  LET n == Len(pool)
      Perms == { q \in [1 .. n -> 1 .. n] :
                   \A i, j \in 1 .. n : i # j => q[i] # q[j] }
      Arr(q, os) == [s \in 0 .. 8 |->
                       IF s < n THEN Card(pool[q[s + 1]], os[s + 1]) ELSE None]
  IN  { sl \in { Arr(q, os) : q \in Perms, os \in [1 .. n -> Orientation] } :
          AllAdjacentMatch(sl) }

\* The same set built slot by slot: the matching arrangements of k cards of
\* the pool on the slots 0..k-1.
RECURSIVE Partial(_, _)
Partial(pool, k) ==
  IF k = 0 THEN { EmptySlots }
  ELSE LET Used(sl) == { sl[s].card_id : s \in 0 .. k - 2 }
           Ext(sl) == { [sl EXCEPT ![k - 1] = Card(id, o)] :
                          id \in Range(pool) \ Used(sl), o \in Orientation }
       IN  UNION { { sl2 \in Ext(sl) : AllAdjacentMatch(sl2) } :
                   sl \in Partial(pool, k - 1) }

Reference(pool) ==
  IF Len(pool) <= MaxPool THEN BruteForce(pool) ELSE Partial(pool, Len(pool))

(* ------------------------------ claims -------------------------------- *)
\* The state right after a Yield: the newest entry of emitted is the panel
\* the driver is looking at.
JustYielded == mode = "run" /\ top.pc = "yielded"

\* C1: in every panel emitted by solve_problem (empty panel, pool of cards
\* with unique ids, in particular the 9-card pool) every pair of adjacent
\* slots matches: south neighbour t of s: s[5] = t[0] and s[4] = t[1];
\* east neighbour t of s: s[2] = t[7] and s[3] = t[6].
\* (emitted only grows, by Yield, and the state after a Yield has
\* JustYielded: looking at the newest entry there covers every entry.)
C1_EmittedMatches ==
  JustYielded => /\ AllAdjacentMatch(emitted[Len(emitted)])
                 /\ AllAdjacentMatch(slots)

C1_Witness ==
  /\ Len(pool0) = 9
  /\ top.pc = "yielded"
  /\ \A s \in 0 .. 8 : slots[s] # None
  /\ emitted[Len(emitted)] = slots

\* C2: run to exhaustion, solve_problem has emitted exactly the arrangements
\* of the reference enumeration: every assignment of (card id, orientation)
\* to the slots that uses each pool card once and satisfies the matching
\* rule, and nothing else.
C2_Complete ==
  mode = "done" => Range(emitted) = Reference(pool0)

C2_Witness ==
  /\ mode = "done"
  /\ Len(pool0) = 9
  /\ Len(emitted) >= 2

\* C3: every emitted panel has the slots 0..n-1 filled (all 9 for the
\* 9-card pool) and the ids in them are exactly the pool's ids, each once.
C3_EachCardOnce ==
  JustYielded =>
    LET sl == emitted[Len(emitted)]
        n == Len(pool0)
    IN  /\ \A s \in 0 .. 8 : (sl[s] # None) <=> (s < n)
        /\ { sl[s].card_id : s \in 0 .. n - 1 } = Range(pool0)
        /\ \A s, t \in 0 .. n - 1 : s # t => sl[s].card_id # sl[t].card_id

C3_Witness ==
  /\ Len(pool0) = 9
  /\ Len(emitted) >= 1
  /\ { emitted[1][s].card_id : s \in 0 .. 8 } = 1 .. 9

\* C4: no call of solve_problem is entered twice with the same (panel
\* contents, remaining pool) pair, and no two emitted solutions are the
\* same assignment of (card id, orientation) to slots.
C4_NoRevisit ==
  /\ ~revisited
  /\ JustYielded =>
       \A i \in 1 .. Len(emitted) - 1 : emitted[i] # emitted[Len(emitted)]

C4_Witness ==
  /\ mode = "done"
  /\ Cardinality(entered) >= 10
  /\ Len(emitted) >= 2

\* C5: every recursive call gets a pool with exactly one card id fewer than
\* its caller's, the recursion is never deeper than the initial pool size,
\* and the search, resumed again and again, reaches its exhausted state.
C5_Depth ==
  /\ Len(stack) - 1 <= Len(pool0)
  /\ \A d \in 2 .. Len(stack) :
       LET callee == Range(stack[d].avail_cards)
           caller == Range(stack[d - 1].avail_cards)
       IN  /\ callee \subseteq caller
           /\ Cardinality(caller \ callee) = 1
           /\ Len(stack[d].avail_cards) = Len(stack[d - 1].avail_cards) - 1

C5_Terminates == [](C5_Depth) /\ <>(mode = "done")

C5_Witness ==
  /\ Len(stack) = 10
  /\ top.avail_cards = << >>

\* C6: on the 9-card catalog of generate_cards the search terminates and
\* the driver has counted at least one solution.
C6_CatalogSolvable ==
  (pool0 = generate_cards) => <>(mode = "done" /\ n_solutions >= 1)

C6_Witness ==
  /\ pool0 = generate_cards
  /\ mode = "done"
  /\ n_solutions >= 1

\* C7: on every panel with cursor < 9 reached by place / remove_last, and
\* for every card, place(card) followed by remove_last() gives back the
\* same cursor and the same content of all 9 slots.
C7_PlaceUndo ==
  (mode = "api" /\ curr_slot < 9) =>
    \A card \in AllCards :
      LET placed == place(panel, card)
          undone == remove_last([slots |-> placed.slots,
                                 curr_slot |-> placed.curr_slot])
      IN  /\ placed.exc = "none"
          /\ undone.exc = "none"
          /\ undone.slots = slots
          /\ undone.curr_slot = curr_slot

\* a remove_last() has just undone a place() made on the present panel
C7_Witness ==
  /\ last.op = "remove_last"
  /\ last.exc = "none"
  /\ curr_slot \in 1 .. 8
  /\ \E card \in GridCards :
       LET placed == place(panel, card)
       IN  last.before = [slots |-> placed.slots,
                          curr_slot |-> placed.curr_slot]

\* The pairing rule of one direction: card at the cursor, neighbour n.
PairRule(dir, card, n) ==
  CASE dir = "north" -> /\ Card_getitem(card, 0) = Card_getitem(n, 5)
                        /\ Card_getitem(card, 1) = Card_getitem(n, 4)
    [] dir = "east"  -> /\ Card_getitem(card, 2) = Card_getitem(n, 7)
                        /\ Card_getitem(card, 3) = Card_getitem(n, 6)
    [] dir = "south" -> /\ Card_getitem(card, 5) = Card_getitem(n, 0)
                        /\ Card_getitem(card, 4) = Card_getitem(n, 1)
    [] dir = "west"  -> /\ Card_getitem(card, 7) = Card_getitem(n, 2)
                        /\ Card_getitem(card, 6) = Card_getitem(n, 3)

Directions == {"north", "east", "south", "west"}

\* The neighbour of the cursor slot of panel p in a direction exists and
\* is occupied.
Occupied(p, dir) ==
  /\ SLOT_NEIGHBORS[p.curr_slot][dir] # NoIdx
  /\ p.slots[SLOT_NEIGHBORS[p.curr_slot][dir]] # None

\* C8: with the cursor in 0..8, can_place(card) is true iff the pairing
\* rule holds in each direction where the cursor slot has an occupied
\* neighbour; so it is true when no neighbour is occupied.
C8_CanPlaceRule ==
  last.op = "can_place" =>
    LET p == last.before
    IN  /\ last.exc = "none"
        /\ last.ret <=>
             \A dir \in Directions :
               Occupied(p, dir) =>
                 PairRule(dir, last.card,
                          p.slots[SLOT_NEIGHBORS[p.curr_slot][dir]])
        /\ (\A dir \in Directions : ~Occupied(p, dir)) => last.ret

\* can_place said no because of the east neighbour alone
C8_Witness ==
  /\ last.op = "can_place"
  /\ ~last.ret
  /\ Occupied(last.before, "north")
  /\ Occupied(last.before, "east")
  /\ \A dir \in Directions \ {"east"} :
       Occupied(last.before, dir) =>
         PairRule(dir, last.card,
            last.before.slots[SLOT_NEIGHBORS[last.before.curr_slot][dir]])

\* C9: after any sequence of place and remove_last calls on a new panel
\* the cursor is in 0..9, the slots below the cursor hold a card and the
\* slots from the cursor on are empty.
C9_CursorInvariant ==
  mode = "api" =>
    /\ curr_slot \in 0 .. 9
    /\ \A s \in 0 .. 8 : (s < curr_slot) <=> (slots[s] # None)

C9_Witness ==
  /\ last.op = "remove_last"
  /\ last.exc = "none"
  /\ curr_slot = 8
  /\ slots[7] # None

\* C10: remove_last() fails with an AssertionError when the cursor is 0 and
\* when the slot at cursor-1 is empty; otherwise it succeeds, the cursor is
\* one less and exactly the slot at the new cursor has been emptied.
C10_RemoveLast ==
  last.op = "remove_last" =>
    LET b == last.before
    IN  IF b.curr_slot = 0 \/ b.slots[b.curr_slot - 1] = None
          THEN last.exc = "AssertionError"
          ELSE /\ last.exc = "none"
               /\ curr_slot = b.curr_slot - 1
               /\ slots[curr_slot] = None
               /\ \A s \in 0 .. 8 : s # curr_slot => slots[s] = b.slots[s]

\* a remove_last() that failed on an empty slot below the cursor
C10_Witness ==
  /\ last.op = "remove_last"
  /\ last.exc = "AssertionError"
  /\ last.before.curr_slot > 0
  /\ last.before.slots[last.before.curr_slot - 1] = None

\* C11: every attempt to overwrite an edge-colour pair of a card (card[i] =
\* x, card.edges = list, edges[i] = pair on the list the card was built
\* from or shares) raises TypeError and leaves every colour the cards'
\* lookups return as it was.
C11_ReadOnly ==
  last.op \in {"setitem", "list_setitem", "edges_assign"} =>
    /\ last.exc = "TypeError"
    /\ \A k \in CardRefs, p \in 0 .. 7 :
         Card_lookup(heap, k, p) = Card_lookup(last.before, k, p)

\* The card and the edge list of the last Card call, as they were when it
\* was made.
LastCard == last.before.cards[last.card]
LastEdges == last.before.lists[LastCard.edges]

\* C12: for every edge list of 8 pairs, orientation o in 0..7 and position
\* p in 0..7, card[p] is edges[idx div 2 + (4 if o >= 4 else 0)][idx mod 2]
\* with idx = (p - 2*(o mod 4)) mod 8 (0-based, as in the source); on the
\* list whose k-th pair is (2k, 2k+1) that is the number idx, plus 8 on the
\* back side.
C12_Lookup ==
  last.op = "getitem" =>
    LET o == LastCard.orientation
        idx == (last.item_idx - 2 * (o % 4)) % 8
        row == (idx \div 2) + (IF o >= 4 THEN 4 ELSE 0)
    IN  /\ last.exc = "none"
        /\ last.ret = LastEdges[row + 1][(idx % 2) + 1]
        /\ LastEdges = IndexTable =>
             last.ret = idx + (IF o >= 4 THEN 8 ELSE 0)

\* card[1] of a card lying BS (orientation 6) reads entry 5 of the back
\* side
C12_Witness ==
  /\ last.op = "getitem"
  /\ LastCard.orientation = 6
  /\ last.item_idx = 1
  /\ LastEdges = IndexTable
  /\ last.ret = 13

\* The 8 colours a card of this edge list shows in an orientation.
Ring(edges, o) == [p \in 0 .. 7 |-> getitem(edges, o, p)]

\* C16: for every card, side o_base in {0, 4}, rotation r in 0..3 and
\* position p, the colour at p in orientation o_base + r is the colour at
\* (p - 2r) mod 8 in orientation o_base: the four rotations of a side are
\* the same ring of 8 colours shifted by 2 positions each.
C16_Rotation ==
  /\ last.op = "getitem" =>
       LET o == LastCard.orientation
           r == o % 4
       IN  last.ret = Ring(LastEdges, o - r)[(last.item_idx - 2 * r) % 8]
  /\ mode = "card" =>
       \A ref \in ListRefs, o_base \in {0, 4}, r \in 0 .. 3, p \in 0 .. 7 :
         Ring(heap.lists[ref], o_base + r)[p]
           = Ring(heap.lists[ref], o_base)[(p - 2 * r) % 8]

\* card[2] of a card lying BW (back side, rotation 3) is what the card
\* lying BN shows at position 4
C16_Witness ==
  /\ last.op = "getitem"
  /\ LastCard.orientation = 7
  /\ last.item_idx = 2
  /\ LastEdges = IndexTable
  /\ last.ret = 12
  /\ Ring(LastEdges, 4)[4] = 12

\* C13: can_place(card) changes neither the slots (so no neighbour's
\* orientation) nor the cursor nor the card it was given; and a step of the
\* solver that counts an attempt without entering a recursive call (the
\* attempt was rejected) leaves slots, cursor and the call's pool as they
\* were.
C13_CanPlacePure ==
  [][ /\ (mode = "api" /\ last'.op = "can_place") =>
           /\ slots' = slots
           /\ curr_slot' = curr_slot
           /\ last'.card = last.card
      /\ (mode = "run" /\ COMBOS' = COMBOS + 1 /\ Len(stack') = Len(stack)
             /\ mode' = "run") =>
           /\ slots' = slots
           /\ curr_slot' = curr_slot
           /\ top'.avail_cards = top.avail_cards ]_vars

\* on the catalog, card 1 lies FN in slot 0 and the first two attempts for
\* slot 1 have been rejected: slot 1 is still empty
C13_Witness ==
  /\ mode = "run"
  /\ Len(pool0) = 9
  /\ Len(stack) = 2
  /\ COMBOS = 3
  /\ top.ci = 1
  /\ top.orientation = 2
  /\ curr_slot = 1
  /\ slots[0] = Card(1, 0)
  /\ slots[1] = None

\* The place of a card in the search order of a pool: its index in the pool
\* first, its orientation second.
PoolIndex(pool, card_id) == CHOOSE i \in 1 .. Len(pool) : pool[i] = card_id
OrderKey(pool, card) == 8 * PoolIndex(pool, card.card_id) + card.orientation

\* Lexicographic order of two arrangements of the pool's cards on the slots
\* 0..Len(pool)-1.
LexLess(pool, a, b) ==
  \E s \in 0 .. Len(pool) - 1 :
    /\ \A t \in 0 .. s - 1 : a[t] = b[t]
    /\ OrderKey(pool, a[s]) < OrderKey(pool, b[s])

\* C14: the solutions are emitted in depth-first order, candidates in pool
\* order and, per card, in ascending orientation: every emitted solution is
\* lexicographically greater than the one before it, and the whole sequence
\* is the increasing enumeration of the reference set of the pool, hence
\* the same in every run on that pool.
C14_Order ==
  /\ (JustYielded /\ Len(emitted) >= 2) =>
       LexLess(pool0, emitted[Len(emitted) - 1], emitted[Len(emitted)])
  /\ mode = "done" =>
       /\ Range(emitted) = Reference(pool0)
       /\ \A i, j \in 1 .. Len(emitted) :
            i < j => LexLess(pool0, emitted[i], emitted[j])

\* the second solution of the catalog has just been emitted
C14_Witness ==
  /\ JustYielded
  /\ Len(pool0) = 9
  /\ Len(emitted) = 2
  /\ emitted[1] # emitted[2]
  /\ OrderKey(pool0, emitted[1][0]) < OrderKey(pool0, emitted[2][0])

\* A step in which the innermost call made a (card, orientation) attempt:
\* a recursive call was entered (accepted), or the loop moved on in the
\* same call (rejected), or can_place raised.
AttemptStep ==
  /\ mode = "run"
  /\ \/ Len(stack') = Len(stack) + 1
     \/ Len(stack') = Len(stack) /\ top.pc = "loop" /\ stack' # stack
     \/ mode' = "error" /\ exc' = "IndexError"

\* 8 attempts per card of the pool of every call in the set.
RECURSIVE AttemptsOf(_)
AttemptsOf(calls) ==
  IF calls = {} THEN 0
  ELSE LET c == CHOOSE c \in calls : TRUE
       IN  8 * Len(c[2]) + AttemptsOf(calls \ {c})

\* C15 as stated: run to exhaustion on a pool of 9 cards with unique ids the
\* counter is at least 9 times the number of emitted solutions.
C15_NineTimes ==
  (mode = "done" /\ Len(pool0) = 9) => COMBOS >= 9 * n_solutions

\* C15, amended: the counter goes up by one in every attempt step, accepted
\* or rejected, and in no other step; run to exhaustion it is 8 times the
\* pool sizes of all calls entered and, on a non-empty pool, at least the
\* number of emitted solutions; on the catalog it is at least 9 times that
\* number.
C15_Counter ==
  /\ [][COMBOS' = COMBOS + (IF AttemptStep THEN 1 ELSE 0)]_vars
  /\ [](mode = "done" =>
          /\ Len(pool0) >= 1 => COMBOS >= n_solutions
          /\ Tracked => COMBOS = AttemptsOf(entered)
          /\ pool0 = generate_cards => COMBOS >= 9 * n_solutions)

\* a run on two catalog cards is exhausted: 16 attempts for slot 0, 8 more
\* after each of them, and several solutions
C15_Witness ==
  /\ mode = "done"
  /\ Len(pool0) = 2
  /\ n_solutions >= 2
  /\ COMBOS = 16 + 16 * 8
  /\ COMBOS = AttemptsOf(entered)

\* C17: in a run of solve_problem on an empty panel and a pool of at most 9
\* cards with unique ids no panel call fails: whenever the innermost call
\* is about to call can_place (and place) the cursor is in 0..8, whenever a
\* call is about to call remove_last the cursor is above 0 and the slot
\* below it holds a card, and the run never ends in an exception.
C17_NoMisuse ==
  /\ mode # "error"
  /\ exc = "none"
  /\ InLoop => curr_slot \in 0 .. 8
  /\ (mode = "run" /\ Len(stack) > 1 /\ Exhausted(top)) =>
       /\ curr_slot > 0
       /\ slots[curr_slot - 1] # None
       /\ remove_last(panel).exc = "none"

\* the catalog's ninth card has been placed and the call below it is
\* exhausted: remove_last is about to be called with the cursor at 9
C17_Witness ==
  /\ mode = "run"
  /\ Len(pool0) = 9
  /\ Len(stack) = 10
  /\ Exhausted(top)
  /\ curr_slot = 9
  /\ slots[8] # None
  /\ remove_last(panel).curr_slot = 8

\* The panel as it was when the call at depth d of the stack was entered:
\* each caller is suspended in the iteration whose card it placed, the
\* caller at depth j in slot j-1.
EntryPanel(d) ==
  [slots |-> [s \in 0 .. 8 |->
                IF s < d - 1
                  THEN Card(stack[s + 1].avail_cards[stack[s + 1].ci],
                            stack[s + 1].orientation)
                  ELSE None],
   curr_slot |-> d - 1]

\* C18: when a call of solve_problem is exhausted the panel (cursor and all
\* 9 slots) is the panel that call was entered with; for the outermost
\* call that is the empty panel with cursor 0, which is what the driver
\* is left with.
C18_Balanced ==
  /\ (mode = "run" /\ Exhausted(top)) =>
       /\ panel = EntryPanel(Len(stack))
       /\ Tracked => << slots, top.avail_cards >> \in entered
  /\ mode = "done" =>
       /\ slots = EmptySlots
       /\ curr_slot = 0

\* on the catalog a call two levels down has tried all its 7 cards, with
\* recursive calls below it, and is exhausted
C18_Witness ==
  /\ mode = "run"
  /\ Len(pool0) = 9
  /\ Len(stack) = 3
  /\ Exhausted(top)
  /\ top.pc = "loop"
  /\ COMBOS > 2 + 8 * 7
  /\ panel = EntryPanel(3)
  /\ slots[1] # None
  /\ slots[2] = None

C20_FailUnchanged ==
  (last.op = "remove_last" /\ last.exc # "none") =>
    /\ slots = last.before.slots
    /\ curr_slot = last.before.curr_slot

\* C20, amended: a remove_last() that fails because the cursor is 0 leaves
\* cursor and slots unchanged; one that fails because the slot at cursor-1
\* is empty leaves all 9 slots unchanged and the cursor one lower.
C20_FailEffect ==
  (last.op = "remove_last" /\ last.exc # "none") =>
    /\ last.exc = "AssertionError"
    /\ slots = last.before.slots
    /\ IF last.before.curr_slot = 0
         THEN curr_slot = 0
         ELSE /\ last.before.slots[last.before.curr_slot - 1] = None
              /\ curr_slot = last.before.curr_slot - 1

\* remove_last() failed on the empty slot 2 below the cursor 3; the cursor
\* is now 2
C20_Witness ==
  /\ last.op = "remove_last"
  /\ last.exc = "AssertionError"
  /\ last.before.curr_slot = 3
  /\ last.before.slots[2] = None
  /\ last.before.slots[1] # None
  /\ curr_slot = 2
  /\ slots = last.before.slots

=============================================================================
